---- MODULE Spec2Model ----
(***************************************************************************)
(* Model of the aggregation utilities of src/src/tools/utils.py:           *)
(* create_batch_processor / process_batch, handle_api_error,               *)
(* format_api_response, merge_api_responses, validate_pagination_params,   *)
(* build_date_filters, search_filter_builder and extract_entity_ids, and   *)
(* of the methods of HarmonicAPI (src/src/tools/harmonic_tools.py) that    *)
(* take a limit.                                                           *)
(*                                                                         *)
(* Python values are tagged records [t, v]: a str is S(..), an int I(..),  *)
(* a bool B(..), a list L(<<..>>) and a dict D(f) with f a function from   *)
(* key strings to values, so that isinstance tests are tests of the tag.   *)
(***************************************************************************)
EXTENDS Integers, Sequences, FiniteSets, TLC

VARIABLES
    now,        \* the last reading of the wall clock, datetime.now()
    pc,         \* position of the process_batch call
    proc,       \* the closure made by create_batch_processor
    ids,        \* process_batch: the ids argument
    kwargs,     \* process_batch: the **kwargs argument
    beh,        \* the accessor's behaviour at each position of ids
    i,          \* process_batch: the outer loop variable
    batch,      \* process_batch: the current slice
    j,          \* process_batch: items of batch already iterated
    results,    \* process_batch: the results list
    calls,      \* log of the accessor invocations of the current call
    lookups,    \* number of getattr lookups of the current call
    ret,        \* how the current process_batch call ended
    prev,       \* outcome of the previous process_batch call
    call,       \* the last call of a pure utility function
    out         \* its outcome

vars == <<now, pc, proc, ids, kwargs, beh, i, batch, j, results, calls,
          lookups, ret, prev, call, out>>

batchVars == <<pc, proc, ids, kwargs, beh, i, batch, j, results, calls,
               lookups, ret, prev>>

(***************************************************************************)
(* Bounds                                                                  *)
(***************************************************************************)
MaxNow == 1
MaxIds == 3
MaxBatch == 3
MaxSources == 2

(***************************************************************************)
(* Python values                                                           *)
(***************************************************************************)
None == [t |-> "NoneType", v |-> "None"]
S(s) == [t |-> "str", v |-> s]
I(n) == [t |-> "int", v |-> n]
B(b) == [t |-> "bool", v |-> b]
L(s) == [t |-> "list", v |-> s]
D(f) == [t |-> "dict", v |-> f]

EmptyDict == D(<<>>)

IsList(x) == x.t = "list"
IsDict(x) == x.t = "dict"
HasKey(x, k) == IsDict(x) /\ k \in DOMAIN x.v

Min(a, b) == IF a < b THEN a ELSE b

\* datetime.now(): a reading of the clock is no earlier than the last one
Clock == now..MaxNow

\* datetime.now().isoformat() of the clock reading n
isoformat(n) == S("T" \o ToString(n))

(***************************************************************************)
(* Exceptions: the class, str(error) and, for requests' HTTPError, the     *)
(* response attribute (None when the error carries no response).  A        *)
(* response has a status code, a reason, a text body and, when the body    *)
(* parses, its JSON value.                                                 *)
(***************************************************************************)
NoJson == [t |-> "undecodable", v |-> "ValueError"]

Response(code, reason, text, json) ==
    [status_code |-> code, reason |-> reason, text |-> text, json |-> json]

Exc(cls, msg, response) == [cls |-> cls, message |-> msg, response |-> response]

\* type(error).__name__
TypeName(error) == error.cls

\* `if error.response:` -- a response to a failed request is false
HttpFields_truthy(error) ==
    LET resp == error.response
    IN  IF error.cls = "HTTPError" /\ resp # None /\ resp.status_code < 400
        THEN [status_code |-> I(resp.status_code),
              reason |-> S(resp.reason),
              details |-> IF resp.json # NoJson THEN resp.json
                          ELSE S(resp.text)]
        ELSE <<>>

\* the fields added for an HTTPError that carries a response
HttpFields(error) ==
    LET resp == error.response
    IN  IF error.cls = "HTTPError" /\ resp # None
        THEN [status_code |-> I(resp.status_code),
              reason |-> S(resp.reason),
              details |-> IF resp.json # NoJson THEN resp.json
                          ELSE S(resp.text)]
        ELSE <<>>

handle_api_error(error, endpoint, api_name, t) ==
    LET base == [message |-> S(error.message),
                 endpoint |-> S(endpoint),
                 api |-> S(api_name),
                 timestamp |-> isoformat(t),
                 type |-> S(TypeName(error))]
    IN  D([success |-> B(FALSE), error |-> D(base @@ HttpFields(error))])

(***************************************************************************)
(* create_batch_processor and process_batch                                *)
(***************************************************************************)
Clients == {"AffinityAPI"}
MethodNames == {"get_company"}
BatchSizes == (0 - 1)..MaxBatch
IdValues == {"a", "b"}
IdSeqs == UNION {[1..n -> IdValues] : n \in 0..MaxIds}
KwargsValues == {EmptyDict, D([limit |-> I(5)])}

Returns(p) == [kind |-> "return", value |-> p]
Raises(e) == [kind |-> "raise", exc |-> e]

\* The accessor, method(item_id, **kwargs): at each position of ids it
\* either returns the provider's payload for the id or raises the HTTP
\* error of a 404 response for the id.
Outcomes == {"return", "raise"}
Payload(item_id) == D([id |-> S(item_id), name |-> S("company " \o item_id)])
Http404(item_id) ==
    Exc("HTTPError", "404 Client Error: Not Found for url: /companies/" \o item_id,
        Response(404, "Not Found", "{\"error\": \"no such id\"}",
                 D([error |-> S("no such id")])))

NoProc == [api_client |-> "", method_name |-> "", batch_size |-> 1]
NoRet == [kind |-> "none"]
NoCall == [fn |-> "none"]
NoOut == [kind |-> "none"]

create_batch_processor(api_client, method_name, batch_size) ==
    [api_client |-> api_client, method_name |-> method_name,
     batch_size |-> batch_size]

\* range(0, stop, step) has a value at n (n is a multiple of step from 0)
RangeHas(n, stop, step) ==
    \/ step > 0 /\ n < stop
    \/ step < 0 /\ n > stop

\* s[lo:hi] for 0 <= lo and 0 <= hi
Slice(s, lo, hi) ==
    IF Min(hi, Len(s)) <= lo THEN <<>> ELSE SubSeq(s, lo + 1, Min(hi, Len(s)))

BatchOf_short(s, n, size) == Slice(s, n, n + size - 1)

\* batch = ids[i:i + batch_size]
BatchOf(s, n, size) == Slice(s, n, n + size)

Invocation_nokw(pos, item_id, kw) ==
    [pos |-> pos, item_id |-> item_id, kwargs |-> EmptyDict]

\* method(item_id, **kwargs), issued for position pos of ids
Invocation(pos, item_id, kw) ==
    [pos |-> pos, item_id |-> item_id, kwargs |-> kw]

OnException_drop(res, e, item_id, t) == res

\* the envelope names the method only
OnException_noid(res, e, item_id, t) ==
    Append(res, handle_api_error(e, proc.method_name, proc.api_client, t))

\* except Exception as e: results.append(handle_api_error(...))
OnException(res, e, item_id, t) ==
    Append(res, handle_api_error(e, proc.method_name \o "/" \o item_id,
                                 proc.api_client, t))

\* results.append(result)
OnResult(res, result) == Append(res, result)

\* the position in ids of the item the inner loop is at
Pos == i + j + 1

CreateProcessor ==
    /\ pc = "idle"
    /\ \E c \in Clients, m \in MethodNames, b \in BatchSizes :
          proc' = create_batch_processor(c, m, b)
    /\ pc' = "created"
    /\ call' = NoCall
    /\ out' = NoOut
    /\ UNCHANGED <<now, ids, kwargs, beh, i, batch, j, results, calls,
                   lookups, ret, prev>>

\* the call, results = [] and method = getattr(api_client, method_name)
ProcessBatch ==
    /\ pc = "created"
    /\ \E s \in IdSeqs, kw \in KwargsValues :
          /\ ids' = s
          /\ kwargs' = kw
          /\ \E f \in [1..Len(s) -> Outcomes] : beh' = f
    /\ results' = <<>>
    /\ lookups' = 1
    /\ calls' = <<>>
    /\ i' = 0
    /\ pc' = "for_batch"
    /\ UNCHANGED <<now, proc, batch, j, ret, prev, call, out>>

\* range(0, len(ids), 0) raises ValueError
RangeError ==
    /\ pc = "for_batch"
    /\ proc.batch_size = 0
    /\ ret' = Raises(Exc("ValueError", "range() arg 3 must not be zero", None))
    /\ pc' = "raised"
    /\ UNCHANGED <<now, proc, ids, kwargs, beh, i, batch, j, results, calls,
                   lookups, prev, call, out>>

NextBatch ==
    /\ pc = "for_batch"
    /\ proc.batch_size # 0
    /\ RangeHas(i, Len(ids), proc.batch_size)
    /\ batch' = BatchOf(ids, i, proc.batch_size)
    /\ j' = 0
    /\ pc' = "for_item"
    /\ UNCHANGED <<now, proc, ids, kwargs, beh, i, results, calls, lookups,
                   ret, prev, call, out>>

\* result = method(item_id, **kwargs) returns
InvokeReturn ==
    /\ pc = "for_item"
    /\ j < Len(batch)
    /\ beh[Pos] = "return"
    /\ calls' = Append(calls, Invocation(Pos, batch[j + 1], kwargs))
    /\ results' = OnResult(results, Payload(batch[j + 1]))
    /\ j' = j + 1
    /\ UNCHANGED <<now, pc, proc, ids, kwargs, beh, i, batch, lookups, ret,
                   prev, call, out>>

InvokeRaise_abort ==
    /\ pc = "for_item"
    /\ j < Len(batch)
    /\ beh[Pos] = "raise"
    /\ calls' = Append(calls, Invocation(Pos, batch[j + 1], kwargs))
    /\ \E t \in Clock :
          /\ now' = t
          /\ results' = OnException(results, Http404(batch[j + 1]),
                                    batch[j + 1], t)
    /\ j' = Len(batch)
    /\ UNCHANGED <<pc, proc, ids, kwargs, beh, i, batch, lookups, ret,
                   prev, call, out>>

\* result = method(item_id, **kwargs) raises
InvokeRaise ==
    /\ pc = "for_item"
    /\ j < Len(batch)
    /\ beh[Pos] = "raise"
    /\ calls' = Append(calls, Invocation(Pos, batch[j + 1], kwargs))
    /\ \E t \in Clock :
          /\ now' = t
          /\ results' = OnException(results, Http404(batch[j + 1]),
                                    batch[j + 1], t)
    /\ j' = j + 1
    /\ UNCHANGED <<pc, proc, ids, kwargs, beh, i, batch, lookups, ret,
                   prev, call, out>>

\* the outer loop variable does not advance
BatchDone_stay ==
    /\ pc = "for_item"
    /\ j >= Len(batch)
    /\ pc' = "for_batch"
    /\ UNCHANGED <<now, proc, ids, kwargs, beh, i, batch, j, results, calls,
                   lookups, ret, prev, call, out>>

\* the inner loop is exhausted: the outer loop takes its next value
BatchDone ==
    /\ pc = "for_item"
    /\ j >= Len(batch)
    /\ i' = i + proc.batch_size
    /\ pc' = "for_batch"
    /\ UNCHANGED <<now, proc, ids, kwargs, beh, batch, j, results, calls,
                   lookups, ret, prev, call, out>>

\* the outer loop is exhausted: return results
Return ==
    /\ pc = "for_batch"
    /\ proc.batch_size # 0
    /\ ~RangeHas(i, Len(ids), proc.batch_size)
    /\ ret' = Returns(results)
    /\ pc' = "done"
    /\ UNCHANGED <<now, proc, ids, kwargs, beh, i, batch, j, results, calls,
                   lookups, prev, call, out>>

\* the timestamp of an error envelope blanked, to compare two calls
Untimed(e) ==
    IF HasKey(e, "success") /\ HasKey(e, "error") /\ HasKey(e.v.error, "timestamp")
    THEN D([e.v EXCEPT !.error = D([@.v EXCEPT !.timestamp = S("")])])
    ELSE e

UntimedRet(r) ==
    IF r.kind = "return"
    THEN Returns([k \in 1..Len(r.value) |-> Untimed(r.value[k])])
    ELSE r

\* a second processor over the same client and method, with another batch
\* size (a larger one: the two calls are compared symmetrically), is given
\* the same ids and keyword arguments; the accessor behaves as before
CallAgain ==
    /\ pc \in {"done", "raised"}
    /\ prev = NoRet
    /\ prev' = [kind |-> "call", batch_size |-> proc.batch_size,
                ret |-> UntimedRet(ret), calls |-> calls]
    /\ \E b \in {n \in BatchSizes : n > proc.batch_size} :
          proc' = create_batch_processor(proc.api_client, proc.method_name, b)
    /\ results' = <<>>
    /\ calls' = <<>>
    /\ lookups' = 1
    /\ ret' = NoRet
    /\ i' = 0
    /\ batch' = <<>>
    /\ j' = 0
    /\ pc' = "for_batch"
    /\ UNCHANGED <<now, ids, kwargs, beh, call, out>>

(***************************************************************************)
(* merge_api_responses                                                     *)
(***************************************************************************)
R1 == D([id |-> I(1)])
R2 == D([id |-> I(2)])
R3 == D([id |-> I(3)])

\* the shapes a source can have: a bare list, a dict whose data is a list,
\* a dict whose data is a single record, a dict without data, a str
Sources ==
    {L(<<>>), L(<<R1, R2>>), L(<<R2, R3>>),
     D([data |-> L(<<R3, R1>>), next |-> S("p2")]),
     D([data |-> R2]),
     R1,
     S("id")}

SourceSeqs == UNION {[1..n -> Sources] : n \in 0..MaxSources}

\* the keyword arguments of a call: none, or a dedup key
NoKeywords == <<>>
MergeKeywords == {NoKeywords, [dedup_key |-> S("id")]}

\* a data key is not looked into
Records_nodata(response) ==
    IF IsList(response) THEN response.v ELSE <<response>>

Records_nolist(response) ==
    LET data == IF HasKey(response, "data") THEN response.v.data ELSE response
    IN  <<data>>

\* the records one response adds to merged_data
Records(response) ==
    LET data == IF HasKey(response, "data") THEN response.v.data ELSE response
    IN  IF IsList(data) THEN data.v ELSE <<data>>

RECURSIVE MergedData(_)
\* merged_data after the loop over responses
MergedData(responses) ==
    IF responses = <<>> THEN <<>>
    ELSE MergedData(SubSeq(responses, 1, Len(responses) - 1))
            \o Records(responses[Len(responses)])

RECURSIVE Unique(_)
Unique(s) ==
    IF s = <<>> THEN <<>>
    ELSE LET init == Unique(SubSeq(s, 1, Len(s) - 1))
             last == s[Len(s)]
         IN  IF \E n \in 1..Len(init) : init[n] = last THEN init
             ELSE Append(init, last)

merge_api_responses_set(responses, t) ==
    IF responses = <<>>
    THEN D([data |-> L(<<>>), merged |-> B(TRUE)])
    ELSE D([data |-> L(Unique(MergedData(responses))),
            merged |-> B(TRUE),
            source_count |-> I(Len(responses)),
            total_records |-> I(Len(Unique(MergedData(responses)))),
            timestamp |-> isoformat(t)])

merge_api_responses(responses, t) ==
    IF responses = <<>>
    THEN D([data |-> L(<<>>), merged |-> B(TRUE)])
    ELSE D([data |-> L(MergedData(responses)),
            merged |-> B(TRUE),
            source_count |-> I(Len(responses)),
            total_records |-> I(Len(MergedData(responses))),
            timestamp |-> isoformat(t)])

\* def merge_api_responses(*responses): every positional argument is a
\* response and the function takes no keyword argument
MergeSignature(args, keywords, t) ==
    IF keywords # NoKeywords
    THEN Raises(Exc("TypeError",
                    "merge_api_responses() got an unexpected keyword argument",
                    None))
    ELSE Returns(merge_api_responses(args, t))

\* The utility functions keep no state between calls: one call, made from
\* the initial state, reaches every outcome a later call could have.
MergeCall ==
    /\ pc = "idle"
    /\ call = NoCall
    /\ \E args \in SourceSeqs, keywords \in MergeKeywords :
          /\ call' = [fn |-> "merge_api_responses", args |-> args,
                      keywords |-> keywords]
          /\ \E t \in Clock :
                /\ now' = t
                /\ out' = MergeSignature(args, keywords, t)
    /\ UNCHANGED batchVars

\* merge_api_responses(merge_api_responses(a, b), c), next to
\* merge_api_responses(a, b, c)
MergeNestedCall ==
    /\ pc = "idle"
    /\ call = NoCall
    /\ \E a \in Sources, b \in Sources, c \in Sources, t1 \in Clock :
          \E t2 \in t1..MaxNow :
             /\ now' = t2
             /\ call' = [fn |-> "merge_api_responses(merge_api_responses)",
                         a |-> a, b |-> b, c |-> c,
                         flat |-> Returns(merge_api_responses(<<a, b, c>>, t2))]
             /\ out' = Returns(merge_api_responses(
                                   <<merge_api_responses(<<a, b>>, t1), c>>, t2))
    /\ UNCHANGED batchVars

(***************************************************************************)
(* validate_pagination_params                                              *)
(***************************************************************************)
PageSizeMax == 500
LimitMax == 1000

PageSizeError ==
    Exc("ValueError", "page_size must be between 1 and 500", None)
LimitError ==
    Exc("ValueError", "limit must be between 1 and 1000", None)

\* arguments around the bounds of both ranges
PagingInts == {0 - 1, 0, 1, 2, 499, 500, 501, 999, 1000, 1001}
PagingArgs == {None} \cup {I(n) : n \in PagingInts}

Clamp(n, lo, hi) == IF n < lo THEN lo ELSE IF n > hi THEN hi ELSE n

validate_pagination_params_clamp(page_size, limit) ==
    Returns(D((IF page_size # None
               THEN [page_size |-> I(Clamp(page_size.v, 1, PageSizeMax))]
               ELSE <<>>)
              @@ (IF limit # None
                  THEN [limit |-> I(Clamp(limit.v, 1, LimitMax))]
                  ELSE <<>>)))

validate_pagination_params_strict(page_size, limit) ==
    IF page_size # None /\ (page_size.v <= 1 \/ page_size.v >= PageSizeMax)
    THEN Raises(PageSizeError)
    ELSE IF limit # None /\ (limit.v <= 1 \/ limit.v >= LimitMax)
    THEN Raises(LimitError)
    ELSE Returns(D((IF page_size # None THEN [page_size |-> page_size]
                    ELSE <<>>)
                   @@ (IF limit # None THEN [limit |-> limit] ELSE <<>>)))

validate_pagination_params(page_size, limit) ==
    IF page_size # None /\ (page_size.v < 1 \/ page_size.v > PageSizeMax)
    THEN Raises(PageSizeError)
    ELSE IF limit # None /\ (limit.v < 1 \/ limit.v > LimitMax)
    THEN Raises(LimitError)
    ELSE Returns(D((IF page_size # None THEN [page_size |-> page_size]
                    ELSE <<>>)
                   @@ (IF limit # None THEN [limit |-> limit] ELSE <<>>)))

ValidateCall ==
    /\ pc = "idle"
    /\ call = NoCall
    /\ \E page_size \in PagingArgs, limit \in PagingArgs :
          /\ call' = [fn |-> "validate_pagination_params",
                      page_size |-> page_size, limit |-> limit]
          /\ out' = validate_pagination_params(page_size, limit)
    /\ UNCHANGED <<now, batchVars>>

(***************************************************************************)
(* build_date_filters.  A date expression is a str that carries its        *)
(* characters, so that endswith, the slice [:-1] and int() are computed on *)
(* them.  The clock counts days: timedelta(days=n) is n readings.          *)
(***************************************************************************)
MaxExpr == 3

Alphabet == {"1", "7", "-", "d", "m", "y", "w"}

Exprs == UNION {[1..n -> Alphabet] : n \in 0..MaxExpr}

RECURSIVE Join(_)
Join(chars) ==
    IF chars = <<>> THEN ""
    ELSE chars[1] \o Join(Tail(chars))

Str(chars) == [t |-> "str", v |-> Join(chars), chars |-> chars]

StartExprs == {None} \cup {Str(chars) : chars \in Exprs}

EndExprs == {None, Str(<<>>), Str(<<"7", "d">>), Str(<<"1", "-", "7">>)}

\* `if start_date:` -- None and the empty str are false
truthy_notnone(x) == x # None

truthy(x) == x # None /\ x.chars # <<>>

endswith(x, c) == x.chars # <<>> /\ x.chars[Len(x.chars)] = c

\* x[:-1]
Front(x) == SubSeq(x.chars, 1, Len(x.chars) - 1)

Digits == <<"0", "1", "2", "3", "4", "5", "6", "7", "8", "9">>

IsDigit(c) == \E k \in 1..10 : Digits[k] = c

DigitOf(c) == (CHOOSE k \in 1..10 : Digits[k] = c) - 1

RECURSIVE IntValue(_)
IntValue(chars) ==
    IF chars = <<>> THEN 0
    ELSE 10 * IntValue(SubSeq(chars, 1, Len(chars) - 1))
            + DigitOf(chars[Len(chars)])

\* int(s) of a str without blanks and underscores: an optional sign and
\* at least one digit, ValueError otherwise
int(chars) ==
    LET signed == chars # <<>> /\ chars[1] \in {"-", "+"}
        digits == IF signed THEN Tail(chars) ELSE chars
    IN  IF digits = <<>> \/ \E k \in 1..Len(digits) : ~IsDigit(digits[k])
        THEN Raises(Exc("ValueError",
                        "invalid literal for int() with base 10: '"
                            \o Join(chars) \o "'", None))
        ELSE Returns(IF signed /\ chars[1] = "-" THEN 0 - IntValue(digits)
                     ELSE IntValue(digits))

timedelta_none(days) == 0

timedelta(days) == days

\* the if/elif chain on the suffix: the new value of start_date, or the
\* exception of int()
Resolve(start_date, t) ==
    LET n == int(Front(start_date))
        minus(factor) ==
            IF n.kind = "raise" THEN n
            ELSE Returns(isoformat(t - timedelta(n.value * factor)))
    IN  IF endswith(start_date, "d") THEN minus(1)
        ELSE IF endswith(start_date, "m") THEN minus(30)
        ELSE IF endswith(start_date, "y") THEN minus(365)
        ELSE Returns(S(start_date.v))

build_date_filters(start_date, end_date, t) ==
    LET start == IF truthy(start_date) THEN Resolve(start_date, t)
                 ELSE NoOut
        min == IF truthy(start_date)
               THEN [min_interaction_date |-> start.value] ELSE <<>>
        max == IF truthy(end_date)
               THEN [max_interaction_date |-> S(end_date.v)] ELSE <<>>
    IN  IF start.kind = "raise" THEN start
        ELSE Returns(D(min @@ max))

\* a call at the instant t
DateFiltersCall ==
    /\ pc = "idle"
    /\ call = NoCall
    /\ \E start_date \in StartExprs, end_date \in EndExprs, t \in Clock :
          /\ now' = t
          /\ call' = [fn |-> "build_date_filters", start_date |-> start_date,
                      end_date |-> end_date, at |-> t, first |-> NoOut]
          /\ out' = build_date_filters(start_date, end_date, t)
    /\ UNCHANGED batchVars

\* a second call with the same arguments reuses the reading of the first
DateFiltersAgain_stale ==
    /\ pc = "idle"
    /\ call.fn = "build_date_filters"
    /\ call.first = NoOut
    /\ \E t \in Clock :
          /\ now' = t
          /\ call' = [call EXCEPT !.at = t,
                                  !.first = [at |-> call.at, out |-> out]]
          /\ out' = build_date_filters(call.start_date, call.end_date,
                                       call.at)
    /\ UNCHANGED batchVars

\* a second call with the same arguments, at an instant no earlier
DateFiltersAgain ==
    /\ pc = "idle"
    /\ call.fn = "build_date_filters"
    /\ call.first = NoOut
    /\ \E t \in Clock :
          /\ now' = t
          /\ call' = [call EXCEPT !.at = t,
                                  !.first = [at |-> call.at, out |-> out]]
          /\ out' = build_date_filters(call.start_date, call.end_date, t)
    /\ UNCHANGED batchVars

(***************************************************************************)
(* search_filter_builder.  The order of a dict's items matters here, so    *)
(* such a dict is OD(items): the sequence of its <<key, value>> items in   *)
(* insertion order, with distinct keys.                                    *)
(***************************************************************************)
MaxFilters == 3

OD(items) == [t |-> "dict", items |-> items]

FilterKeys == {"company_stage", "stage", "industry", "sector"}

FilterValues == {None, I(0), S("seed")}

FilterDicts ==
    {OD(items) : items \in
        {s \in UNION {[1..n -> FilterKeys \X FilterValues] : n \in 0..MaxFilters} :
            \A a, b \in 1..Len(s) : a # b => s[a][1] # s[b][1]}}

filter_mappings ==
    [company_stage |-> "stage",
     funding_stage |-> "funding_stage",
     employee_count_min |-> "employee_count_min",
     employee_count_max |-> "employee_count_max",
     founded_year_min |-> "founded_year_min",
     founded_year_max |-> "founded_year_max",
     industry |-> "industry",
     location |-> "location",
     technology |-> "technology"]

Get_default(mapping, key, default) == default

\* mapping.get(key, default)
Get(mapping, key, default) ==
    IF key \in DOMAIN mapping THEN mapping[key] ELSE default

\* a key already present keeps its value
SetItem_keep(items, key, value) ==
    IF \E k \in 1..Len(items) : items[k][1] = key THEN items
    ELSE Append(items, <<key, value>>)

\* d[key] = value: a key already present keeps its place
SetItem(items, key, value) ==
    IF \E k \in 1..Len(items) : items[k][1] = key
    THEN [k \in 1..Len(items) |->
             IF items[k][1] = key THEN <<key, value>> ELSE items[k]]
    ELSE Append(items, <<key, value>>)

\* the loop over filters.items()
RECURSIVE FormatFilters(_, _)
FormatFilters(items, formatted_filters) ==
    IF items = <<>> THEN formatted_filters
    ELSE LET key == items[1][1]
             value == items[1][2]
             mapped_key == Get(filter_mappings, key, key)
         IN  FormatFilters(Tail(items),
                 IF value # None
                 THEN SetItem(formatted_filters, mapped_key, value)
                 ELSE formatted_filters)

search_filter_builder(filters) == OD(FormatFilters(filters.items, <<>>))

SearchFiltersCall ==
    /\ pc = "idle"
    /\ call = NoCall
    /\ \E filters \in FilterDicts :
          /\ call' = [fn |-> "search_filter_builder", filters |-> filters]
          /\ out' = Returns(search_filter_builder(filters))
    /\ UNCHANGED <<now, batchVars>>

(***************************************************************************)
(* format_api_response, and handle_api_error called on its own             *)
(***************************************************************************)
\* raw payloads: records, dicts with a continuation marker at the top
\* level or below it, lists
Payloads ==
    {R1, EmptyDict,
     D([results |-> L(<<R1, R2>>), next |-> S("/companies?page=2")]),
     D([results |-> L(<<R1>>), page_token |-> S("p2")]),
     D([items |-> L(<<R2>>), cursor |-> None]),
     D([data |-> D([next |-> S("p2"), cursor |-> S("c2")])]),
     L(<<>>), L(<<R1, R2>>), L(<<S("next")>>)}

\* len(str(x)): the length of the text Python prints for x
RECURSIVE ReprLen(_), ItemsLen(_, _), ElemsLen(_)
ItemsLen(f, keys) ==
    IF keys = {} THEN 0
    ELSE LET k == CHOOSE key \in keys : TRUE
         IN  Len(k) + 4 + ReprLen(f[k]) + ItemsLen(f, keys \ {k})

ElemsLen(s) ==
    IF s = <<>> THEN 0 ELSE ReprLen(s[1]) + ElemsLen(Tail(s))

ReprLen(x) ==
    LET separators(n) == IF n = 0 THEN 0 ELSE 2 * (n - 1)
    IN  CASE x.t = "str" -> Len(x.v) + 2
          [] x.t = "int" -> Len(ToString(x.v))
          [] x.t = "bool" -> IF x.v THEN 4 ELSE 5
          [] x.t = "NoneType" -> 4
          [] x.t = "list" -> 2 + ElemsLen(x.v) + separators(Len(x.v))
          [] x.t = "dict" -> 2 + ItemsLen(x.v, DOMAIN x.v)
                               + separators(Cardinality(DOMAIN x.v))

has_pagination_next(response) == "next" \in DOMAIN response.v

\* "page_token" in response or "cursor" in response or "next" in response
has_pagination(response) ==
    \/ "page_token" \in DOMAIN response.v
    \/ "cursor" \in DOMAIN response.v
    \/ "next" \in DOMAIN response.v

Formatted_failed(response, t) ==
    [data |-> response, timestamp |-> isoformat(t), success |-> B(FALSE)]

Formatted(response, t) ==
    [data |-> response, timestamp |-> isoformat(t), success |-> B(TRUE)]

format_api_response(response, include_metadata, t) ==
    LET metadata ==
            IF include_metadata /\ IsDict(response)
            THEN [metadata |->
                     D([record_count |->
                            I(IF IsList(response) THEN Len(response.v) ELSE 1),
                        has_pagination |-> B(has_pagination(response)),
                        response_size |-> I(ReprLen(response))])]
            ELSE <<>>
    IN  D(Formatted(response, t) @@ metadata)

FormatCall ==
    /\ pc = "idle"
    /\ call = NoCall
    /\ \E response \in Payloads, include_metadata \in BOOLEAN, t \in Clock :
          /\ now' = t
          /\ call' = [fn |-> "format_api_response", response |-> response,
                      include_metadata |-> include_metadata]
          /\ out' = Returns(format_api_response(response, include_metadata, t))
    /\ UNCHANGED batchVars

\* the exceptions handed to handle_api_error: failures before any response,
\* HTTP errors with a JSON body, with a body that is no JSON and without a
\* response, a rejected argument, any other exception, and an exception
\* other than HTTPError that carries a response
Errors ==
    {Exc("ConnectionError", "Connection refused", None),
     Exc("Timeout", "Read timed out", None),
     Http404("a"),
     Exc("HTTPError", "502 Server Error: Bad Gateway for url: /companies",
         Response(502, "Bad Gateway", "<html>Bad Gateway</html>", NoJson)),
     Exc("HTTPError", "no response", None),
     LimitError,
     Exc("KeyError", "'id'", None),
     Exc("TooManyRedirects", "Exceeded 30 redirects",
         Response(301, "Moved Permanently", "", NoJson))}

Endpoints == {"/companies"}

ApiNames == {"Affinity", "Harmonic"}

HandleErrorCall ==
    /\ pc = "idle"
    /\ call = NoCall
    /\ \E error \in Errors, endpoint \in Endpoints, api_name \in ApiNames,
          t \in Clock :
          /\ now' = t
          /\ call' = [fn |-> "handle_api_error", error |-> error,
                      endpoint |-> endpoint, api_name |-> api_name]
          /\ out' = Returns(handle_api_error(error, endpoint, api_name, t))
    /\ UNCHANGED batchVars

(***************************************************************************)
(* extract_entity_ids                                                      *)
(***************************************************************************)
Ea == D([id |-> S("a")])
Eb == D([id |-> S("b")])
Ec == D([id |-> I(3), name |-> S("c")])
Eo == D([other |-> I(1)])

\* responses: a bare list, results, items, both, a single object, the same
\* below a data key, a data key next to other keys, lists with elements
\* that are no dict, a results key that holds no list
ExtractPayloads ==
    {L(<<Ea, Ec>>),
     D([results |-> L(<<Ea, Eb, Eo>>)]),
     D([items |-> L(<<Eo, Ec, S("x"), Ea>>)]),
     D([results |-> L(<<Ec>>), items |-> L(<<Ea, Eb>>)]),
     Ec, Eo, EmptyDict,
     D([data |-> L(<<Eb, Eo, Ec>>)]),
     D([data |-> D([results |-> L(<<Ea>>)])]),
     D([data |-> Ec]),
     D([data |-> L(<<Ea, Eb>>), id |-> S("page")]),
     D([data |-> S("a")]),
     D([results |-> None]),
     D([results |-> Ea])}

EntityTypes == {"id", "name"}

\* str(x) of a scalar field value
str(x) ==
    CASE x.t = "str" -> x.v
      [] x.t = "int" -> ToString(x.v)
      [] x.t = "bool" -> IF x.v THEN "True" ELSE "False"
      [] x.t = "NoneType" -> "None"

Unwrap_none(response) == response

\* response.get("data", response)
Unwrap(response) == Get(response.v, "data", response)

\* the if/elif chain that locates the entities
Entities(data) ==
    IF IsList(data) THEN data
    ELSE IF IsDict(data) /\ "results" \in DOMAIN data.v THEN data.v.results
    ELSE IF IsDict(data) /\ "items" \in DOMAIN data.v THEN data.v.items
    ELSE IF IsDict(data) THEN L(<<data>>) ELSE L(<<>>)

\* entity.get(entity_type) of every entity, None when it is missing
Ids_get(entities, entity_type) ==
    [k \in 1..Len(entities) |->
        IF IsDict(entities[k]) /\ entity_type \in DOMAIN entities[k].v
        THEN S(str(entities[k].v[entity_type])) ELSE S("None")]

\* the loop over the entities
Ids(entities, entity_type) ==
    LET found == SelectSeq(entities,
                     LAMBDA entity : IsDict(entity)
                                        /\ entity_type \in DOMAIN entity.v)
    IN  [k \in 1..Len(found) |-> S(str(found[k].v[entity_type]))]

\* A response without the method get raises AttributeError.  `for entity
\* in entities` raises TypeError when entities is None or a number; the
\* elements of a str and the keys of a dict are strs, which the loop skips.
extract_entity_ids(response, entity_type) ==
    IF ~IsDict(response)
    THEN Raises(Exc("AttributeError",
                    "'" \o response.t \o "' object has no attribute 'get'",
                    None))
    ELSE LET entities == Entities(Unwrap(response))
         IN  IF entities.t \in {"NoneType", "int", "bool"}
             THEN Raises(Exc("TypeError",
                             "'" \o entities.t \o "' object is not iterable",
                             None))
             ELSE Returns(L(Ids(IF IsList(entities) THEN entities.v ELSE <<>>,
                                entity_type)))

ExtractCall ==
    /\ pc = "idle"
    /\ call = NoCall
    /\ \E response \in ExtractPayloads, entity_type \in EntityTypes :
          /\ call' = [fn |-> "extract_entity_ids", response |-> response,
                      entity_type |-> entity_type]
          /\ out' = extract_entity_ids(response, entity_type)
    /\ UNCHANGED <<now, batchVars>>

\* extract_entity_ids(payload, f), then format_api_response(payload) and
\* extract_entity_ids of the envelope
ExtractWrappedCall ==
    /\ pc = "idle"
    /\ call = NoCall
    /\ \E payload \in ExtractPayloads \cup Payloads,
          entity_type \in EntityTypes, include_metadata \in BOOLEAN,
          t \in Clock :
          /\ now' = t
          /\ call' = [fn |-> "extract_entity_ids(format_api_response)",
                      payload |-> payload, entity_type |-> entity_type,
                      direct |-> extract_entity_ids(payload, entity_type)]
          /\ out' = extract_entity_ids(
                        format_api_response(payload, include_metadata, t),
                        entity_type)
    /\ UNCHANGED batchVars

(***************************************************************************)
(* HarmonicAPI (src/src/tools/harmonic_tools.py): a method that takes a    *)
(* limit validates it and then calls _make_request, which issues one GET   *)
(* and turns every exception of the request into an error envelope.        *)
(***************************************************************************)
\* the endpoint of two of the methods that take a limit
HarmonicEndpoint ==
    [get_companies |-> "/companies",
     get_company_competitors |-> "/companies/a/competitors"]

\* what requests.get, raise_for_status and response.json() can do: return
\* the decoded payload, or raise before a response, on the status of the
\* response, or on a body that is no JSON
NetOutcomes ==
    {Returns(D([results |-> L(<<Ea, Eb>>)])),
     Raises(Exc("ConnectionError", "Connection refused", None)),
     Raises(Exc("Timeout", "Read timed out", None)),
     Raises(Http404("a")),
     Raises(Exc("HTTPError", "502 Server Error: Bad Gateway for url: /companies",
                Response(502, "Bad Gateway", "<html>Bad Gateway</html>", NoJson))),
     Raises(Exc("JSONDecodeError", "Expecting value: line 1 column 1 (char 0)",
                None))}

\* params = validate_pagination_params(limit=limit)
HarmonicCall ==
    /\ pc = "idle"
    /\ call = NoCall
    /\ \E method \in DOMAIN HarmonicEndpoint, limit \in PagingArgs :
          LET params == validate_pagination_params(None, limit)
          IN  /\ call' = [fn |-> "HarmonicAPI", method |-> method,
                          limit |-> limit, requests |-> <<>>, net |-> NoOut]
              /\ out' = IF params.kind = "raise" THEN params
                        ELSE [kind |-> "validated", params |-> params.value]
    /\ UNCHANGED <<now, batchVars>>

\* _make_request without the try: the exception of the request propagates
HarmonicRequest_raise ==
    /\ pc = "idle"
    /\ call.fn = "HarmonicAPI"
    /\ out.kind = "validated"
    /\ \E net \in NetOutcomes, t \in Clock :
          /\ now' = t
          /\ call' = [call EXCEPT
                        !.requests = Append(@, [endpoint |-> HarmonicEndpoint[call.method],
                                                params |-> out.params]),
                        !.net = net]
          /\ out' = net
    /\ UNCHANGED batchVars

\* return self._make_request(endpoint, params)
HarmonicRequest ==
    /\ pc = "idle"
    /\ call.fn = "HarmonicAPI"
    /\ out.kind = "validated"
    /\ \E net \in NetOutcomes, t \in Clock :
          /\ now' = t
          /\ call' = [call EXCEPT
                        !.requests = Append(@, [endpoint |-> HarmonicEndpoint[call.method],
                                                params |-> out.params]),
                        !.net = net]
          /\ out' = IF net.kind = "return" THEN net
                    ELSE Returns(handle_api_error(net.exc,
                                     HarmonicEndpoint[call.method],
                                     "Harmonic", t))
    /\ UNCHANGED batchVars

Init ==
    /\ now = 0
    /\ pc = "idle"
    /\ proc = NoProc
    /\ ids = <<>>
    /\ kwargs = EmptyDict
    /\ beh = <<>>
    /\ i = 0
    /\ batch = <<>>
    /\ j = 0
    /\ results = <<>>
    /\ calls = <<>>
    /\ lookups = 0
    /\ ret = NoRet
    /\ prev = NoRet
    /\ call = NoCall
    /\ out = NoOut

Next ==
    \/ CreateProcessor
    \/ ProcessBatch
    \/ RangeError
    \/ NextBatch
    \/ InvokeReturn
    \/ InvokeRaise
    \/ BatchDone
    \/ Return
    \/ CallAgain
    \/ MergeCall
    \/ ValidateCall
    \/ DateFiltersCall
    \/ DateFiltersAgain
    \/ SearchFiltersCall
    \/ FormatCall
    \/ HandleErrorCall
    \/ ExtractCall
    \/ ExtractWrappedCall
    \/ HarmonicCall
    \/ HarmonicRequest
    \/ MergeNestedCall

Spec == Init /\ [][Next]_vars

\* One call of process_batch.  A call that has started keeps taking steps: the
\* interpreter runs the loops on, and every accessor call is assumed to
\* terminate (to return or to raise).
BatchNext ==
    \/ CreateProcessor
    \/ ProcessBatch
    \/ RangeError
    \/ NextBatch
    \/ InvokeReturn
    \/ InvokeRaise
    \/ BatchDone
    \/ Return

BatchStep ==
    \/ RangeError
    \/ NextBatch
    \/ InvokeReturn
    \/ InvokeRaise
    \/ BatchDone
    \/ Return

FairSpec == Init /\ [][BatchNext]_vars /\ WF_vars(BatchStep)

(***************************************************************************)
(* Properties of process_batch                                             *)
(***************************************************************************)
\* F: the positions of ids whose accessor call raises
Failing == {k \in 1..Len(ids) : beh[k] = "raise"}

IsErrorEnvelope(e) ==
    /\ HasKey(e, "success")
    /\ e.v.success = B(FALSE)
    /\ HasKey(e, "error")
    /\ IsDict(e.v.error)

IsSuccessEnvelope(e, payload) ==
    /\ HasKey(e, "success")
    /\ e.v.success = B(TRUE)
    /\ HasKey(e, "data")
    /\ e.v.data = payload

\* the entry at position k is the one made for ids[k]: the value the accessor
\* returned at k, or an error envelope naming ids[k]
EntryIsFor(e, k) ==
    IF beh[k] = "return"
    THEN e = Payload(ids[k])
    ELSE /\ IsErrorEnvelope(e)
         /\ e.v.error.v.endpoint = S(proc.method_name \o "/" \o ids[k])

Invoked == {calls[n].pos : n \in 1..Len(calls)}

\* C1: with a batch size of at least 1, process_batch returns (it never
\* raises because an accessor call raised) exactly one entry per id, in
\* input order, and the entry at position k is an error envelope iff the
\* accessor call at k raised.
C1_FailureIsolation ==
    /\ (pc = "raised" => proc.batch_size = 0 /\ calls = <<>>)
    /\ (pc = "done" /\ proc.batch_size >= 1) =>
          /\ ret.kind = "return"
          /\ Len(ret.value) = Len(ids)
          /\ \A k \in 1..Len(ids) :
                /\ IsErrorEnvelope(ret.value[k]) <=> k \in Failing
                /\ EntryIsFor(ret.value[k], k)

C1_Witness ==
    /\ pc = "done"
    /\ proc.batch_size = 2
    /\ Len(ids) = 3
    /\ Failing = {2}
    /\ Len(ret.value) = 3

\* C2 (as claimed): every entry of the result for an id whose accessor call
\* returned is a success envelope carrying the returned payload under data.
C2_SuccessEnvelope ==
    pc = "done" =>
       \A k \in 1..Len(ret.value) :
          (k \in 1..Len(ids) /\ k \notin Failing) =>
             IsSuccessEnvelope(ret.value[k], Payload(ids[k]))

\* C3: no position of ids is invoked twice, an accessor failure never ends
\* the call, and once the call has returned every position after a failed
\* one has been invoked.
C3_NoAbortNoRepeat ==
    /\ \A m, n \in 1..Len(calls) : m # n => calls[m].pos # calls[n].pos
    /\ (pc = "raised" => calls = <<>>)
    /\ pc = "done" =>
          \A k \in Invoked \cap Failing :
             \A m \in (k + 1)..Len(ids) : m \in Invoked

C3_Witness ==
    /\ pc = "done"
    /\ proc.batch_size = 3
    /\ Len(ids) = 3
    /\ 1 \in Failing
    /\ Invoked = {1, 2, 3}

C5_UniformKwargs ==
    \A n \in 1..Len(calls) : calls[n].kwargs = kwargs

C5_Witness ==
    /\ pc = "done"
    /\ kwargs = D([limit |-> I(5)])
    /\ Len(calls) = 3

(***************************************************************************)
(* Properties of merge_api_responses                                       *)
(***************************************************************************)
IsMerge == call.fn = "merge_api_responses"

\* the records a source holds, by its shape
ShapeRecords(src) ==
    CASE IsList(src) -> src.v
      [] HasKey(src, "data") /\ IsList(src.v.data) -> src.v.data.v
      [] HasKey(src, "data") /\ ~IsList(src.v.data) -> <<src.v.data>>
      [] OTHER -> <<src>>

RECURSIVE Total(_, _)
\* c1 + ... + cn
Total(srcs, n) ==
    IF n = 0 THEN 0 ELSE Total(srcs, n - 1) + Len(ShapeRecords(srcs[n]))

\* C6: with at least one source and no dedup key, total_records is the sum
\* of the sources' record counts and the m-th record of source k is the item
\* at position c1 + ... + c(k-1) + m of data.
C6_Concatenation ==
    (IsMerge /\ call.keywords = NoKeywords /\ Len(call.args) >= 1) =>
       /\ out.kind = "return"
       /\ out.value.v.total_records = I(Total(call.args, Len(call.args)))
       /\ Len(out.value.v.data.v) = Total(call.args, Len(call.args))
       /\ \A k \in 1..Len(call.args) :
             \A m \in 1..Len(ShapeRecords(call.args[k])) :
                out.value.v.data.v[Total(call.args, k - 1) + m]
                   = ShapeRecords(call.args[k])[m]

C6_Witness ==
    /\ IsMerge
    /\ call.keywords = NoKeywords
    /\ call.args = <<L(<<R1, R2>>), L(<<R2, R3>>)>>
    /\ out.kind = "return"
    /\ out.value.v.total_records = I(4)

RECURSIVE FirstByKey(_, _)
\* the records of s, minus those whose value of key was seen earlier in s
FirstByKey(s, key) ==
    IF s = <<>> THEN <<>>
    ELSE LET init == SubSeq(s, 1, Len(s) - 1)
             last == s[Len(s)]
         IN  IF /\ HasKey(last, key)
                /\ \E n \in 1..Len(init) :
                      HasKey(init[n], key) /\ init[n].v[key] = last.v[key]
             THEN FirstByKey(init, key)
             ELSE Append(FirstByKey(init, key), last)

RECURSIVE Flat(_)
Flat(srcs) ==
    IF srcs = <<>> THEN <<>>
    ELSE ShapeRecords(Head(srcs)) \o Flat(Tail(srcs))

\* C7 (as claimed): when a dedup key is requested the merged items are the
\* first occurrences of each key value in concatenated source order, and
\* total_records is their number.
C7_Dedup ==
    (IsMerge /\ call.keywords # NoKeywords /\ Len(call.args) >= 1
        /\ \A k \in 1..Len(call.args) : IsList(call.args[k])) =>
       /\ out.kind = "return"
       /\ out.value.v.data
             = L(FirstByKey(Flat(call.args), call.keywords.dedup_key.v))
       /\ out.value.v.total_records
             = I(Len(FirstByKey(Flat(call.args), call.keywords.dedup_key.v)))
       /\ out.value.v.source_count = I(Len(call.args))

\* the items of data that source k contributed, given that the sources
\* before it contributed what their shapes say
Segment(k) ==
    LET data == out.value.v.data.v
        lo == Total(call.args, k - 1)
        hi == IF k = Len(call.args) THEN Len(data)
              ELSE Min(Total(call.args, k), Len(data))
    IN  IF hi <= lo THEN <<>> ELSE SubSeq(data, lo + 1, hi)

\* C8: with at least one source, a bare list contributes its elements, a
\* dict with a data key the elements of data when data is a list and data
\* itself otherwise, a dict without a data key itself, and source_count is
\* the number of sources.
C8_Normalization ==
    (IsMerge /\ out.kind = "return" /\ Len(call.args) >= 1) =>
       /\ out.value.v.source_count = I(Len(call.args))
       /\ \A k \in 1..Len(call.args) :
             LET src == call.args[k] IN
             /\ IsList(src) => Segment(k) = src.v
             /\ (HasKey(src, "data") /\ IsList(src.v.data))
                   => Segment(k) = src.v.data.v
             /\ (HasKey(src, "data") /\ ~IsList(src.v.data))
                   => Segment(k) = <<src.v.data>>
             /\ (IsDict(src) /\ ~HasKey(src, "data")) => Segment(k) = <<src>>

C8_Witness ==
    /\ IsMerge
    /\ out.kind = "return"
    /\ call.args = <<D([data |-> R2]), D([data |-> L(<<R3, R1>>), next |-> S("p2")])>>
    /\ out.value.v.data = L(<<R2, R3, R1>>)

(***************************************************************************)
(* Properties of validate_pagination_params                                *)
(***************************************************************************)
IsValidate == call.fn = "validate_pagination_params"

InRange(arg, lo, hi) == arg # None /\ lo <= arg.v /\ arg.v <= hi

OnlyPageSize == IsValidate /\ call.page_size # None /\ call.limit = None

\* C9 (as claimed): with only a page size, a value outside [1, 500] raises
\* an error that no other offending value raises (the error tells the value
\* and so the violated bound), and a value inside returns {page_size: value}.
C9_ErrorNamesValue ==
    OnlyPageSize =>
       IF InRange(call.page_size, 1, PageSizeMax)
       THEN out = Returns(D([page_size |-> call.page_size]))
       ELSE /\ out.kind = "raise"
            /\ out.exc.cls = "ValueError"
            /\ \A other \in PagingArgs :
                  (other # None /\ other # call.page_size)
                     => validate_pagination_params(other, None) # out

\* C9 (amended): a value outside [1, 500] raises the ValueError whose fixed
\* message names the parameter and the range, and a value inside returns
\* {page_size: value}.
C9_PageSizeOnly ==
    OnlyPageSize =>
       IF InRange(call.page_size, 1, PageSizeMax)
       THEN out = Returns(D([page_size |-> call.page_size]))
       ELSE out = Raises(Exc("ValueError",
                             "page_size must be between 1 and 500", None))

C9_Witness ==
    /\ OnlyPageSize
    /\ call.page_size = I(501)
    /\ out.kind = "raise"

Supplied ==
    (IF call.page_size # None THEN {"page_size"} ELSE {})
       \cup (IF call.limit # None THEN {"limit"} ELSE {})

\* C10: a returned mapping has a key exactly for each supplied argument,
\* with the supplied value, page_size within [1, 500] and limit within
\* [1, 1000]; no argument gives the empty mapping and two arguments in range
\* give both keys.
C10_ReturnedMapping ==
    IsValidate =>
       /\ out.kind = "return" =>
             /\ IsDict(out.value)
             /\ DOMAIN out.value.v = Supplied
             /\ \A key \in Supplied : out.value.v[key] = call[key]
             /\ "page_size" \in Supplied
                   => InRange(out.value.v.page_size, 1, PageSizeMax)
             /\ "limit" \in Supplied
                   => InRange(out.value.v.limit, 1, LimitMax)
       /\ Supplied = {} => out = Returns(EmptyDict)
       /\ (InRange(call.page_size, 1, PageSizeMax)
              /\ InRange(call.limit, 1, LimitMax))
             => (out.kind = "return"
                    /\ DOMAIN out.value.v = {"page_size", "limit"})

C10_Witness ==
    /\ IsValidate
    /\ call.page_size = I(500)
    /\ call.limit = I(1000)
    /\ out = Returns(D([page_size |-> I(500), limit |-> I(1000)]))

(***************************************************************************)
(* Properties of build_date_filters                                        *)
(***************************************************************************)
IsDates == call.fn = "build_date_filters"

\* integers written with the digits of Alphabet
Ns == {0 - 17, 0 - 7, 0 - 1, 1, 7, 11, 17, 71, 77}

DaysPer == [d |-> 1, m |-> 30, y |-> 365]

MinDate(o) == o.value.v.min_interaction_date

\* C11: a start expression "N" followed by d, m or y, N an integer, is
\* resolved to the instant of the call minus N, 30*N or 365*N days, under
\* the key min_interaction_date.
C11_RelativeStart ==
    IsDates =>
        \A n \in Ns, u \in {"d", "m", "y"} :
            call.start_date.v = ToString(n) \o u
                => /\ out.kind = "return"
                   /\ HasKey(out.value, "min_interaction_date")
                   /\ MinDate(out) = isoformat(call.at - n * DaysPer[u])

C11_Witness ==
    /\ IsDates
    /\ call.start_date.v = "7m"
    /\ call.at = 1
    /\ out.kind = "return"
    /\ MinDate(out) = S("T-209")

\* the text of an integer: an optional minus sign, then digits only
IsIntegerText(chars) ==
    LET digits == IF chars # <<>> /\ chars[1] = "-" THEN Tail(chars)
                  ELSE chars
    IN  /\ digits # <<>>
        /\ \A k \in 1..Len(digits) :
              digits[k] \in {"0", "1", "2", "3", "4", "5", "6", "7", "8", "9"}

Suffix(x) == x.chars[Len(x.chars)]

\* an integer with a suffix other than d, m, y, or one of these suffixes
\* after something that is no integer
Malformed(x) ==
    /\ x # None
    /\ x.chars # <<>>
    /\ \/ Suffix(x) = "w" /\ IsIntegerText(Front(x))
       \/ Suffix(x) \in {"d", "m", "y"} /\ ~IsIntegerText(Front(x))

\* C12: every relative start expression whose suffix is not d, m or y, or
\* whose prefix is not an integer, fails with ValueError; none is passed
\* through as a start filter.
C12_RejectsMalformed ==
    (IsDates /\ Malformed(call.start_date))
        => (out.kind = "raise" /\ out.exc.cls = "ValueError")

\* the instants a start "<n>d" can resolve to
Starts == {t - n : t \in 0..MaxNow, n \in Ns}

\* C13: the same expression "<n>d" resolved at T1 and then at T2 > T1
\* gives starts with start1 < start2 and start2 - start1 = T2 - T1: the
\* clock is read anew by every call.
C13_FreshClock ==
    (IsDates /\ call.first # NoOut /\ call.first.at < call.at)
        => \A n \in Ns :
              call.start_date.v = ToString(n) \o "d"
                  => /\ out.kind = "return"
                     /\ call.first.out.kind = "return"
                     /\ \E start1 \in Starts, start2 \in Starts :
                           /\ MinDate(call.first.out) = isoformat(start1)
                           /\ MinDate(out) = isoformat(start2)
                           /\ start1 < start2
                           /\ start2 - start1 = call.at - call.first.at

C13_Witness ==
    /\ IsDates
    /\ call.start_date.v = "7d"
    /\ call.first # NoOut
    /\ call.first.at = 0
    /\ call.at = 1
    /\ MinDate(call.first.out) = S("T-7")
    /\ MinDate(out) = S("T-6")

Absolute(x) == x.chars # <<>> /\ Suffix(x) \notin {"d", "m", "y"}

Verbatim(given(_)) ==
    /\ (HasKey(out.value, "min_interaction_date") <=> given(call.start_date))
    /\ (HasKey(out.value, "max_interaction_date") <=> given(call.end_date))
    /\ (given(call.end_date)
            => out.value.v.max_interaction_date = S(call.end_date.v))
    /\ ((given(call.start_date) /\ Absolute(call.start_date))
            => MinDate(out) = S(call.start_date.v))

NotNone(x) == x # None

NonEmpty(x) == x # None /\ x.v # ""

\* C14 (as stated): the end expression is stored verbatim under
\* max_interaction_date, an absolute start verbatim under
\* min_interaction_date, and each key is present exactly when its argument
\* was supplied (is not None).
C14_KeysWhenSupplied ==
    (IsDates /\ out.kind = "return") => Verbatim(NotNone)

\* C14 (amended): the same, each key being present exactly when its
\* argument is neither None nor the empty string.
C14_KeysWhenNonEmpty ==
    (IsDates /\ out.kind = "return") => Verbatim(NonEmpty)

C14_Witness ==
    /\ IsDates
    /\ call.start_date = Str(<<>>)
    /\ call.end_date = Str(<<"7", "d">>)
    /\ out = Returns(D([max_interaction_date |-> S("7d")]))

(***************************************************************************)
(* Properties of search_filter_builder                                     *)
(***************************************************************************)
IsFilters == call.fn = "search_filter_builder"

\* the provider's name of a filter: the table renames company_stage only
ProviderName(key) == IF key = "company_stage" THEN "stage" ELSE key

NonNull(items) == SelectSeq(items, LAMBDA item : item[2] # None)

\* a sequence of names without the repetitions of a name
RECURSIVE FirstOccurrences(_)
FirstOccurrences(names) ==
    IF names = <<>> THEN <<>>
    ELSE LET front == FirstOccurrences(SubSeq(names, 1, Len(names) - 1))
             last == names[Len(names)]
         IN  IF \E k \in 1..Len(front) : front[k] = last THEN front
             ELSE Append(front, last)

IsFormat == call.fn = "format_api_response"

IsHandle == call.fn = "handle_api_error"

Metadata(o) == o.value.v.metadata.v

\* C16: with metadata enabled the envelope of format_api_response carries
\* a record count: the number of elements of a payload that is a list, and
\* 1 for any other payload.
C16_RecordCount ==
    (IsFormat /\ call.include_metadata)
        => /\ HasKey(out.value, "metadata")
           /\ Metadata(out).record_count
                  = I(IF IsList(call.response) THEN Len(call.response.v)
                      ELSE 1)

Markers == {"page_token", "cursor", "next"}

\* C17: with metadata enabled the flag has_pagination of the envelope is
\* true exactly when the raw payload has page_token, cursor or next among
\* its top-level keys; a marker below the top level does not set it.
C17_TopLevelMarker ==
    (IsFormat /\ call.include_metadata)
        => ((/\ HasKey(out.value, "metadata")
             /\ Metadata(out).has_pagination = B(TRUE))
            <=> \E marker \in Markers : HasKey(call.response, marker))

C17_Witness ==
    /\ IsFormat
    /\ call.include_metadata
    /\ call.response = D([items |-> L(<<R2>>), cursor |-> None])
    /\ Metadata(out).has_pagination = B(TRUE)
    /\ Metadata(out).response_size = I(38)

Populated(envelope, key) == HasKey(envelope, key) /\ envelope.v[key] # None

\* C18: every envelope of format_api_response and of handle_api_error has
\* exactly one of data and error populated: data and no error when success
\* is true, an error record and no data when success is false.
C18_DataOrError ==
    (IsFormat \/ IsHandle)
        => LET envelope == out.value
           IN  /\ out.kind = "return"
               /\ envelope.v.success \in {B(TRUE), B(FALSE)}
               /\ (envelope.v.success = B(TRUE)
                      => (/\ Populated(envelope, "data")
                          /\ ~Populated(envelope, "error")))
               /\ (envelope.v.success = B(FALSE)
                      => (/\ Populated(envelope, "error")
                          /\ IsDict(envelope.v.error)
                          /\ ~Populated(envelope, "data")))
               /\ (IsFormat => envelope.v.success = B(TRUE))
               /\ (IsHandle => envelope.v.success = B(FALSE))

C18_Witness ==
    /\ IsFormat
    /\ call.response = L(<<R1, R2>>)
    /\ out.value.v.data = L(<<R1, R2>>)
    /\ out.value.v.success = B(TRUE)
    /\ "error" \notin DOMAIN out.value.v

Kinds == {"TransportError", "HttpError", "ValidationError", "UnknownError"}

\* C19: the kind recorded by handle_api_error is always one of
\* TransportError, HttpError, ValidationError and UnknownError.
C19_FourKinds ==
    IsHandle => \E kind \in Kinds : out.value.v.error.v.type = S(kind)

HttpKeys == {"status_code", "reason", "details"}

\* C20: for an HTTPError that carries a response the error record holds
\* the response's status code, its reason and, as details, the parsed body
\* or else the body's text; for every other failure, an HTTPError without
\* a response included, it holds none of the three.
C20_HttpFields ==
    IsHandle
        => LET record == out.value.v.error.v
               resp == call.error.response
           IN  IF call.error.cls = "HTTPError" /\ resp # None
               THEN /\ HttpKeys \subseteq DOMAIN record
                    /\ record.status_code = I(resp.status_code)
                    /\ record.reason = S(resp.reason)
                    /\ (resp.json # NoJson => record.details = resp.json)
                    /\ (resp.json = NoJson => record.details = S(resp.text))
               ELSE HttpKeys \cap DOMAIN record = {}

C20_Witness ==
    /\ IsHandle
    /\ call.error.cls = "HTTPError"
    /\ call.error.response # None
    /\ call.error.response.json = NoJson
    /\ out.value.v.error.v.status_code = I(502)
    /\ out.value.v.error.v.details = S("<html>Bad Gateway</html>")

(***************************************************************************)
(* Properties of extract_entity_ids                                        *)
(***************************************************************************)
IsExtract == call.fn = "extract_entity_ids"

IsWrapped == call.fn = "extract_entity_ids(format_api_response)"

HasField(entity, field) == IsDict(entity) /\ field \in DOMAIN entity.v

\* the positions of the entities that have the field
WithField(entities, field) ==
    {k \in 1..Len(entities) : HasField(entities[k], field)}

\* the n-th smallest element of a set of positions
Nth(positions, n) ==
    CHOOSE k \in positions : Cardinality({m \in positions : m <= k}) = n

\* found is the sequence of the field's values, as text, of the entities
\* that have the field, in the order of the entities
IsFieldSequence(found, entities, field) ==
    /\ IsList(found)
    /\ Len(found.v) = Cardinality(WithField(entities, field))
    /\ Len(found.v) <= Len(entities)
    /\ \A n \in 1..Len(found.v) :
          found.v[n]
              = S(str(entities[Nth(WithField(entities, field), n)].v[field]))

\* C21: the entity list is the payload itself when it is a list, else the
\* value of its results key, else the value of its items key, else the
\* payload as a single entity; the call returns normally for each of the
\* four shapes.  Stated for payloads without a data key whose results or
\* items value is a list.
C21_FourShapes ==
    LET payload == call.response
        field == call.entity_type
        returns(entities) ==
            /\ out.kind = "return"
            /\ IsFieldSequence(out.value, entities, field)
    IN  (IsExtract /\ ~HasKey(payload, "data"))
            => /\ IsList(payload) => returns(payload.v)
               /\ (HasKey(payload, "results") /\ IsList(payload.v.results))
                      => returns(payload.v.results.v)
               /\ (/\ HasKey(payload, "items")
                   /\ ~HasKey(payload, "results")
                   /\ IsList(payload.v.items))
                      => returns(payload.v.items.v)
               /\ (/\ IsDict(payload)
                   /\ ~HasKey(payload, "results")
                   /\ ~HasKey(payload, "items"))
                      => returns(<<payload>>)

\* the entity list of a response that is a dict, None when it is no list
Located(response) ==
    LET data == IF HasKey(response, "data") THEN response.v.data
                ELSE response
        entities ==
            IF IsList(data) THEN data
            ELSE IF HasKey(data, "results") THEN data.v.results
            ELSE IF HasKey(data, "items") THEN data.v.items
            ELSE IF IsDict(data) THEN L(<<data>>)
            ELSE L(<<>>)
    IN  IF IsList(entities) THEN entities ELSE None

\* C22: the result is, in the order of the located entities, the text of
\* the named field of every entity that has it; an entity without the
\* field is skipped and does not make the call fail, so the result is no
\* longer than the entity list.  Stated for responses that are dicts.
C22_FieldsInOrder ==
    (IsExtract /\ IsDict(call.response) /\ Located(call.response) # None)
        => /\ out.kind = "return"
           /\ IsFieldSequence(out.value, Located(call.response).v,
                              call.entity_type)

C22_Witness ==
    /\ IsExtract
    /\ call.response = D([results |-> L(<<Ea, Eb, Eo>>)])
    /\ call.entity_type = "id"
    /\ out = Returns(L(<<S("a"), S("b")>>))

\* C30 (as stated): for every payload p that is a dict and every field,
\* extract_entity_ids of format_api_response(p) returns the ids that
\* extract_entity_ids of p returns.
C30_WrappingAnyMapping ==
    (IsWrapped /\ IsDict(call.payload)) => out = call.direct

\* C30 (amended): the same for every dict p without a top-level data key.
C30_WrappingNoDataKey ==
    (IsWrapped /\ IsDict(call.payload) /\ ~HasKey(call.payload, "data"))
        => out = call.direct

C30_Witness ==
    /\ IsWrapped
    /\ call.payload = D([results |-> L(<<Ec>>), items |-> L(<<Ea, Eb>>)])
    /\ call.entity_type = "id"
    /\ call.direct = Returns(L(<<S("3")>>))
    /\ out = Returns(L(<<S("3")>>))

(***************************************************************************)
(* Properties of the Harmonic client                                       *)
(***************************************************************************)
IsHarmonic == call.fn = "HarmonicAPI"

LimitOutOfRange == call.limit # None /\ call.limit.v \notin 1..1000

\* C23: in a Harmonic method that takes a limit, a limit outside [1,1000]
\* raises ValueError to the caller before any HTTP request is issued and
\* never yields an error envelope, while a failure of the request itself
\* is never raised: the method returns an error envelope with success
\* False.
C23_ValidationRaisesRequestReturns ==
    IsHarmonic
        => /\ LimitOutOfRange
                 => /\ out.kind = "raise"
                    /\ out.exc.cls = "ValueError"
                    /\ call.requests = <<>>
           /\ out.kind = "raise" => (LimitOutOfRange /\ call.requests = <<>>)
           /\ call.requests # <<>>
                 => /\ ~LimitOutOfRange
                    /\ Len(call.requests) = 1
                    /\ out.kind = "return"
                    /\ (call.net.kind = "raise"
                           => /\ IsErrorEnvelope(out.value)
                              /\ out.value.v.error.v.api = S("Harmonic"))
                    /\ (call.net.kind = "return" => out = call.net)

C23_Witness ==
    /\ IsHarmonic
    /\ call.limit = I(1001)
    /\ out = Raises(LimitError)
    /\ call.requests = <<>>

(***************************************************************************)
(* Further properties of process_batch                                     *)
(***************************************************************************)
\* C24: an error envelope at position k of the results names the failing
\* call: its endpoint is "<method_name>/<ids[k]>", its api is the class
\* name of the client given to create_batch_processor, its message is the
\* text of the exception raised for ids[k]; envelopes for different ids
\* have different endpoints, so the id can be read off the envelope.
C24_EnvelopeNamesCall ==
    LET entries == IF pc = "done" THEN ret.value ELSE results
        error(k) == entries[k].v.error.v
    IN  /\ \A k \in 1..Len(entries) :
              IsErrorEnvelope(entries[k])
                  => /\ error(k).endpoint = S(proc.method_name \o "/" \o ids[k])
                     /\ error(k).api = S(proc.api_client)
                     /\ error(k).message = S(Http404(ids[k]).message)
        /\ \A k, m \in 1..Len(entries) :
              (/\ IsErrorEnvelope(entries[k])
               /\ IsErrorEnvelope(entries[m])
               /\ error(k).endpoint = error(m).endpoint)
                  => ids[k] = ids[m]

C24_Witness ==
    /\ pc = "done"
    /\ proc.batch_size = 1
    /\ ids = <<"a", "b">>
    /\ Failing = {2}
    /\ ret.value[2].v.error.v.endpoint = S("get_company/b")
    /\ ret.value[2].v.error.v.api = S("AffinityAPI")

\* the accessor invocations so far are those for positions 1, 2, ... of
\* ids, each finished (its entry appended) before the next; the method was
\* looked up once, before the first of them
OneAtATime ==
    (pc \in {"for_batch", "for_item", "done"} /\ proc.batch_size >= 1)
        => /\ lookups = 1
           /\ Len(calls) <= Len(ids)
           /\ Len(results) = Len(calls)
           /\ \A n \in 1..Len(calls) :
                 calls[n].pos = n /\ calls[n].item_id = ids[n]

\* C29: with a batch size of at least 1 and an accessor whose calls
\* terminate, a started process_batch call ends, after exactly len(ids)
\* invocations issued one at a time in input order, the method having
\* been looked up once before the first.
C29_Terminates ==
    /\ []OneAtATime
    /\ [](pc = "done" /\ proc.batch_size >= 1 => Len(calls) = Len(ids))
    /\ (pc = "for_batch" /\ proc.batch_size >= 1) ~> (pc = "done")

C29_Witness ==
    /\ pc = "done"
    /\ proc.batch_size = 2
    /\ Len(ids) = 3
    /\ Len(calls) = 3
    /\ lookups = 1

(***************************************************************************)
(* Further properties of merge_api_responses                               *)
(***************************************************************************)
\* C25: every result of merge_api_responses, for any number of sources,
\* zero included, carries source_count equal to the number of sources and
\* total_records equal to the length of data.
C25_CountsForAnySources ==
    (IsMerge /\ call.keywords = NoKeywords)
        => /\ out.kind = "return"
           /\ IsList(out.value.v.data)
           /\ HasKey(out.value, "source_count")
           /\ out.value.v.source_count = I(Len(call.args))
           /\ HasKey(out.value, "total_records")
           /\ out.value.v.total_records = I(Len(out.value.v.data.v))

IsNested == call.fn = "merge_api_responses(merge_api_responses)"

\* C26: for all sources a, b, c the data of merge(merge(a, b), c) is the
\* data of merge(a, b, c), and so is total_records; source_count is 2 for
\* the former and 3 for the latter.
C26_FlatteningAssociative ==
    IsNested
        => /\ out.kind = "return"
           /\ out.value.v.data = call.flat.value.v.data
           /\ out.value.v.total_records = call.flat.value.v.total_records
           /\ out.value.v.source_count = I(2)
           /\ call.flat.value.v.source_count = I(3)

C26_Witness ==
    /\ IsNested
    /\ call.a = L(<<R1, R2>>)
    /\ call.b = D([data |-> R2])
    /\ call.c = D([data |-> L(<<R3, R1>>), next |-> S("p2")])
    /\ out.value.v.data = L(<<R1, R2, R2, R3, R1>>)

(***************************************************************************)
(* Further properties of build_date_filters and search_filter_builder      *)
(***************************************************************************)
\* the instants a relative start can resolve to
ResolvedStarts ==
    {t - n * factor : t \in 0..MaxNow, n \in Ns, factor \in {1, 30, 365}}

\* C27: for every start expression made of an integer and d, m or y, the
\* resolved start is not later than the instant of the call.
C27_StartInThePast ==
    IsDates
        => \A n \in Ns, u \in {"d", "m", "y"} :
              call.start_date.v = ToString(n) \o u
                  => /\ out.kind = "return"
                     /\ \E start \in ResolvedStarts :
                           /\ MinDate(out) = isoformat(start)
                           /\ start <= call.at

\* no two keys with a value share a provider name
DistinctNames(items) ==
    \A a, b \in 1..Len(items) :
        (a # b /\ items[a][2] # None /\ items[b][2] # None)
            => ProviderName(items[a][1]) # ProviderName(items[b][1])

\* every key with a value has an entry of its own in the result
NoFilterLost ==
    LET kept == NonNull(call.filters.items)
        result == out.value.items
    IN  /\ Len(result) = Len(kept)
        /\ \A a \in 1..Len(kept) :
              \E k \in 1..Len(result) :
                 result[k] = <<ProviderName(kept[a][1]), kept[a][2]>>

\* C28 (as stated): for every input the result has as many entries as the
\* input has keys with a value other than None, and each such value is in
\* the result: no two input keys fall onto one output key.
C28_NeverLoses == IsFilters => NoFilterLost

\* C28 (amended): the same for inputs in which no two keys with a value
\* share a provider name; in general the result has one entry per provider
\* name, holding the value of the last input key with that name.
C28_LosesOnlyOnSharedName ==
    IsFilters
        => LET kept == NonNull(call.filters.items)
               names == {ProviderName(kept[a][1]) : a \in 1..Len(kept)}
               result == out.value.items
               last(name) ==
                   CHOOSE a \in 1..Len(kept) :
                       /\ ProviderName(kept[a][1]) = name
                       /\ \A b \in (a + 1)..Len(kept) :
                             ProviderName(kept[b][1]) # name
           IN  /\ DistinctNames(call.filters.items) => NoFilterLost
               /\ Len(result) = Cardinality(names)
               /\ \A k \in 1..Len(result) :
                     /\ result[k][1] \in names
                     /\ result[k][2] = kept[last(result[k][1])][2]

C28_Witness ==
    /\ IsFilters
    /\ call.filters = OD(<<<<"stage", I(0)>>, <<"sector", S("seed")>>,
                           <<"company_stage", S("seed")>>>>)
    /\ out = Returns(OD(<<<<"stage", S("seed")>>, <<"sector", S("seed")>>>>))

TypeOK == pc \in {"idle", "created", "for_batch", "for_item", "done", "raised"}
====
